---- MODULE Spec2Model ----
(***************************************************************************)
(* A state-machine model of export.py: the retry decorator, the two        *)
(* decorated fetchers (_get_problems_count, _get_problems_data_page), the   *)
(* pagination driver (_get_problems_data) and the CSV writer of main().     *)
(*                                                                         *)
(* The program is sequential.  One action is one blocking step of the      *)
(* program (a network round-trip or a sleep) together with all the code    *)
(* that runs up to the next blocking step.  The remote service and the     *)
(* environment are the nondeterministic part: every round-trip may return, *)
(* raise urllib3's ProtocolError, or raise some other error.               *)
(***************************************************************************)
EXTENDS Integers, Sequences, FiniteSets, TLC

(***************************************************************************)
(* Bounds of the model.                                                    *)
(***************************************************************************)
MaxTotal == 2        \* largest totalNum the service reports
MaxPageSize == 2     \* --batch-size ranges over 1..MaxPageSize and the default
MaxPageLen == 2      \* longest page the service returns
MaxTimes == 3        \* SpecRetry: the attempt ceiling ranges over 1..MaxTimes
MaxFaults == 4       \* transient errors the transport raises in one run

(***************************************************************************)
(* Program constants.                                                      *)
(***************************************************************************)
Times == 3                 \* @retry(times=3, ...)
DefaultBatchSize == 300    \* --batch-size default

\* exceptions=(urllib3.exceptions.ProtocolError,)
Exceptions == {"ProtocolError"}

\* What a network round-trip can raise: the transient protocol error, or
\* anything else (authentication rejection, malformed response, ...).
TransportErrors == {"ProtocolError", "OtherError"}

\* Python's None for total_num and for company_tag_stats.
None == <<>>

(***************************************************************************)
(* Item records (GraphqlQuestionDetail).  company_tag_stats stands for the *)
(* decoded JSON object: company name -> list of tag objects; NoStats is a  *)
(* null companyTagStats, on which json.loads raises TypeError.             *)
(***************************************************************************)
NoStats == [null |-> TRUE]

Item1 ==
    [question_frontend_id |-> "1", title |-> "Two Sum", title_slug |-> "two-sum",
     category_title |-> "Algorithms", frequency |-> "0.5", is_paid_only |-> "False",
     topic_tags |-> <<[name |-> "Array", slug |-> "array"],
                      [name |-> "Hash Table", slug |-> "hash-table"]>>,
     company_tag_stats |->
         [CompanyA |-> <<[slug |-> "x"], [slug |-> "y"]>>,
          CompanyB |-> <<[slug |-> "x"]>>]]

Item2 ==
    [question_frontend_id |-> "2", title |-> "Add Two Numbers",
     title_slug |-> "add-two-numbers",
     category_title |-> "Algorithms", frequency |-> "0.0", is_paid_only |-> "True",
     topic_tags |-> <<[name |-> "Math", slug |-> "math"]>>,
     company_tag_stats |-> [CompanyA |-> <<>>]]

Item3 ==
    [question_frontend_id |-> "3", title |-> "LRU Cache", title_slug |-> "lru-cache",
     category_title |-> "Design", frequency |-> "0.0", is_paid_only |-> "False",
     topic_tags |-> <<>>,
     company_tag_stats |-> NoStats]

Items == {Item1, Item2, Item3}

VARIABLES
    cred,           \* LEETCODE_SESSION_ID is set in os.environ
    times,          \* the decorator's attempt ceiling
    page_size,      \* args.batch_size
    pc,             \* where main() is
    step,           \* where the running fetcher attempt is
    attempt,        \* wrapper: number of loop iterations completed
    ret,            \* wrapper: <<v>> once it returned v, None before
    request,        \* fetcher: the variables of graphql_request
    exc,            \* the exception that left main(), "none" if none
    problem_count,  \* _get_problems_data: problem_count
    pages,          \* _get_problems_data: length of the page range
    page,           \* _get_problems_data: page
    problems,       \* _get_problems_data: problems
    problems_data,  \* main: problems_data
    opened,         \* main: args.output has been opened (and truncated)
    rows,           \* the rows of args.output
    \* what an observer of the run has seen
    calls,          \* calls of the wrapped function in this wrapper invocation
    sleeps,         \* time.sleep(delay) calls in this wrapper invocation
    outcomes,       \* how each completed call of the wrapped function ended
    reported,       \* the total_num of the last count response
    responses,      \* the pages the service returned, in order
    countCalls,     \* invocations of (decorated) _get_problems_count
    pageCalls,      \* invocations of (decorated) _get_problems_data_page
    tokenCalls,     \* leetcode.auth.get_csrf_cookie round-trips
    posts,          \* graphql_post round-trips
    paceSleeps,     \* time.sleep(2) calls
    faults,         \* ProtocolErrors raised so far
    sites,          \* where each completed call of the wrapped function ended
    invoked,        \* the page argument of each page fetcher invocation
    windows,        \* the request of each page query the service answered
    countAttempts,  \* calls of the body of _get_problems_count
    pageAttempts,   \* calls of the body of _get_problems_data_page
    tokenFails      \* get_csrf_cookie round-trips that raised

config == <<cred, times, page_size>>
wrapper == <<attempt, calls, sleeps, outcomes>>
driver == <<problem_count, pages, page, problems, problems_data>>
output == <<opened, rows>>
network == <<tokenCalls, posts, paceSleeps, faults>>
attempts == <<countAttempts, pageAttempts, tokenFails>>
vars == <<cred, times, page_size, pc, step, attempt, ret, request, exc, problem_count,
          pages, page, problems, problems_data, opened, rows, calls, sleeps,
          outcomes, reported, responses, countCalls, pageCalls, tokenCalls,
          posts, paceSleeps, faults, sites, invoked, windows, countAttempts,
          pageAttempts, tokenFails>>

(***************************************************************************)
(* Pure helpers.                                                           *)
(***************************************************************************)
Min(a, b) == IF a < b THEN a ELSE b

\* math.ceil(a / b) for a >= 0, b > 0 (exact while a / b is exact in a double)
Ceil(a, b) == IF a % b = 0 THEN a \div b ELSE (a \div b) + 1

OrOne(t) == IF t = None THEN 1 ELSE t[1]

\* total_num or 0
OrZero(t) == IF t = None THEN 0 ELSE IF t[1] = 0 THEN 0 ELSE t[1]

PageRangeExact(count, size) == Ceil(count - 0, size)

PageRangeFloor(count, size) == (count - 0 + 1) \div size

\* range(math.ceil((stop - start + 1) / page_size)), start = 0, stop = count
PageRange(count, size) == Ceil(count - 0 + 1, size)

SkipByPage(offset, size, p) == offset + p

\* skip=offset + page * page_size
Skip(offset, size, p) == offset + p * size

\* The variables of the count query: limit=1, skip=0
CountRequest == [limit |-> 1, skip |-> 0]

\* The variables of the query of _get_problems_data_page(offset, size, p)
PageRequest(offset, size, p) == [limit |-> size, skip |-> Skip(offset, size, p)]

\* No query has been built
NoRequest == [limit |-> 0, skip |-> 0]

ExtendReversed(acc, data) == data \o acc

\* problems.extend(data)
Extend(acc, data) == acc \o data

\* Sequences over S of length at most n
SeqUpTo(S, n) == UNION {[1..k -> S] : k \in 0..n}

\* The responses to a page query with limit n
PageResponses(n) == SeqUpTo(Items, Min(n, MaxPageLen))

\* The responses to the count query: total_num is null or a number
CountResponses == {None} \cup {<<n>> : n \in 0..MaxTotal}

RECURSIVE JoinComma(_)
\* ",".join(s)
JoinComma(s) ==
    IF s = <<>> THEN ""
    ELSE IF Len(s) = 1 THEN s[1]
    ELSE s[1] \o "," \o JoinComma(Tail(s))

\* [d.slug for d in problem_data.topic_tags]
TopicSlugs(item) == [i \in 1..Len(item.topic_tags) |-> item.topic_tags[i].slug]

\* {d["slug"] for d in itertools.chain(*json.loads(stats).values())}
CompanySlugs(item) ==
    UNION {{item.company_tag_stats[c][i].slug :
                i \in 1..Len(item.company_tag_stats[c])} :
           c \in DOMAIN item.company_tag_stats}

\* The orders in which iterating a Python set can yield its elements
Orders(S) ==
    {s \in [1..Cardinality(S) -> S] : \A i, j \in DOMAIN s : i # j => s[i] # s[j]}

RECURSIVE Chain(_, _)
\* itertools.chain(*m.values()) as a list of slugs, the companies of cs first
Chain(m, cs) ==
    IF cs = {} THEN <<>>
    ELSE LET c == CHOOSE x \in cs : TRUE
         IN  [i \in 1..Len(m[c]) |-> m[c][i].slug] \o Chain(m, cs \ {c})

CompanyOrdersNoSet(item) ==
    {Chain(item.company_tag_stats, DOMAIN item.company_tag_stats)}

\* The sequences ",".join is given: the set of company slugs, iterated
CompanyOrders(item) == Orders(CompanySlugs(item))

csv_header ==
    <<"Question id", "title", "slug", "category", "frequency", "is_paid",
      "topics", "companies">>

\* The row main() writes for an item, its company set iterated in order ord
Row(item, ord) ==
    <<item.question_frontend_id, item.title, item.title_slug,
      item.category_title, item.frequency, item.is_paid_only,
      JoinComma(TopicSlugs(item)), JoinComma(ord)>>

\* json.loads(None) raises TypeError
LoadsRaises(item) == item.company_tag_stats = NoStats

(***************************************************************************)
(* The retry wrapper.                                                      *)
(***************************************************************************)
InLoopOneMore == attempt < times

InLoopForever == TRUE

\* for attempt in range(times - 1): the call in progress is inside the loop
InLoop == attempt < times - 1

CaughtAny(e) == InLoop

\* except exceptions: the wrapper catches e raised by the call in progress
Caught(e) == InLoop /\ e \in Exceptions

NoSleepAfterCatch == sleeps

\* time.sleep(delay) after a caught exception
SleepAfterCatch == sleeps + 1

EnterSharedBudget ==
    /\ attempt' = attempt
    /\ calls' = 0
    /\ sleeps' = 0
    /\ outcomes' = <<>>
    /\ step' = "client"
    /\ ret' = None
    /\ request' = NoRequest
    /\ sites' = <<>>

\* The wrapper enters: a fresh loop
Enter ==
    /\ attempt' = 0
    /\ calls' = 0
    /\ sleeps' = 0
    /\ outcomes' = <<>>
    /\ step' = "client"
    /\ ret' = None
    /\ request' = NoRequest
    /\ sites' = <<>>

AfterRaiseSalvage(p, e) == IF p = "page" THEN "open" ELSE "failed"

\* Where main() is after exception e left a fetcher called from place p
AfterRaise(p, e) == "failed"

\* The wrapped function raised e: the wrapper either catches it, sleeps and
\* goes round the loop, or lets it out, and then nothing up to main() catches
Raise(e) ==
    /\ outcomes' = Append(outcomes, e)
    /\ IF Caught(e)
          THEN /\ sleeps' = SleepAfterCatch
               /\ attempt' = attempt + 1
               /\ step' = "client"
               /\ UNCHANGED <<pc, exc>>
          ELSE /\ pc' = AfterRaise(pc, e)
               /\ exc' = e
               /\ UNCHANGED <<sleeps, attempt, step>>
    /\ UNCHANGED ret

\* The wrapped function returned v: return func(*args, **kwargs)
Return(v) ==
    /\ outcomes' = Append(outcomes, "ok")
    /\ ret' = <<v>>
    /\ step' = "ret"
    /\ UNCHANGED <<pc, exc, sleeps, attempt>>

(***************************************************************************)
(* Initial states.                                                         *)
(***************************************************************************)
InitWith(T) ==
    /\ cred \in BOOLEAN
    /\ times \in T
    /\ page_size \in (1..MaxPageSize) \cup {DefaultBatchSize}
    /\ pc = "main"
    /\ step = "idle"
    /\ attempt = 0
    /\ ret = None
    /\ request = NoRequest
    /\ exc = "none"
    /\ problem_count = 0
    /\ pages = 0
    /\ page = 0
    /\ problems = <<>>
    /\ problems_data = <<>>
    /\ opened = FALSE
    /\ rows = <<>>
    /\ calls = 0
    /\ sleeps = 0
    /\ outcomes = <<>>
    /\ reported = None
    /\ responses = <<>>
    /\ countCalls = 0
    /\ pageCalls = 0
    /\ tokenCalls = 0
    /\ posts = 0
    /\ paceSleeps = 0
    /\ faults = 0
    /\ sites = <<>>
    /\ invoked = <<>>
    /\ windows = <<>>
    /\ countAttempts = 0
    /\ pageAttempts = 0
    /\ tokenFails = 0

Init == InitWith({Times})

InitRetry == InitWith(1..MaxTimes)

(***************************************************************************)
(* Actions.                                                                *)
(***************************************************************************)
\* main() -> _get_problems_data(args.batch_size) -> _get_problems_count()
CallCount ==
    /\ pc = "main"
    /\ pc' = "count"
    /\ countCalls' = countCalls + 1
    /\ Enter
    /\ UNCHANGED <<config, exc, driver, output, reported, responses, pageCalls,
                   network, invoked, windows, attempts>>

HasCredentialUnchecked == TRUE

\* The environment lookup succeeds and the csrf round-trip is made
HasCredential == cred

RaiseInClientUncaught(e) ==
    /\ outcomes' = Append(outcomes, e)
    /\ pc' = AfterRaise(pc, e)
    /\ exc' = e
    /\ UNCHANGED <<sleeps, attempt, step, ret>>

\* An exception raised while the client is built is raised inside the
\* decorated function, so inside the wrapper's try
RaiseInClient(e) == Raise(e)

DeriveTokenOnce == IF tokenCalls = 0 THEN 1 ELSE tokenCalls

\* csrf_token = leetcode.auth.get_csrf_cookie(session_id): one round-trip
\* for every client built
DeriveToken == tokenCalls + 1

AfterClientUnpaced == "post"

\* What follows the construction of the client and of the query:
\* time.sleep(2), then the post
AfterClient == "pace"

\* A fetcher attempt starts: _get_leetcode_api_client()
GetClient ==
    /\ pc \in {"count", "page"}
    /\ step = "client"
    /\ calls' = calls + 1
    /\ countAttempts' = IF pc = "count" THEN countAttempts + 1 ELSE countAttempts
    /\ pageAttempts' = IF pc = "page" THEN pageAttempts + 1 ELSE pageAttempts
    /\ IF ~HasCredential
          THEN \* os.environ["LEETCODE_SESSION_ID"] raises KeyError
               /\ RaiseInClient("KeyError")
               /\ sites' = Append(sites, "env")
               /\ UNCHANGED <<network, request, tokenFails>>
          ELSE \* leetcode.auth.get_csrf_cookie(session_id)
               /\ tokenCalls' = DeriveToken
               /\ \/ \* the client is built, and then graphql_request
                     /\ step' = AfterClient
                     /\ request' = IF pc = "count" THEN CountRequest
                                    ELSE PageRequest(0, page_size, page)
                     /\ UNCHANGED <<pc, exc, attempt, sleeps, outcomes, ret, faults,
                                    sites, tokenFails>>
                  \/ /\ faults < MaxFaults
                     /\ faults' = faults + 1
                     /\ RaiseInClient("ProtocolError")
                     /\ sites' = Append(sites, "csrf")
                     /\ tokenFails' = tokenFails + 1
                     /\ UNCHANGED request
                  \/ /\ RaiseInClient("OtherError")
                     /\ sites' = Append(sites, "csrf")
                     /\ tokenFails' = tokenFails + 1
                     /\ UNCHANGED <<faults, request>>
               /\ UNCHANGED <<posts, paceSleeps>>
    /\ UNCHANGED <<config, driver, output, reported, responses, countCalls,
                   pageCalls, invoked, windows>>

\* time.sleep(2)  # Leetcode has a rate limiter
PaceSleep ==
    /\ pc \in {"count", "page"}
    /\ step = "pace"
    /\ paceSleeps' = paceSleeps + 1
    /\ step' = "post"
    /\ UNCHANGED <<config, pc, attempt, ret, request, exc, driver, output, calls, sleeps,
                   outcomes, reported, responses, countCalls, pageCalls,
                   tokenCalls, posts, faults, sites, invoked, windows, attempts>>

\* A graphql_post round-trip fails
PostRaises ==
    /\ pc \in {"count", "page"}
    /\ step = "post"
    /\ posts' = posts + 1
    /\ \/ /\ faults < MaxFaults
          /\ faults' = faults + 1
          /\ Raise("ProtocolError")
       \/ /\ Raise("OtherError")
          /\ UNCHANGED faults
    /\ sites' = Append(sites, "post")
    /\ UNCHANGED <<config, request, driver, output, calls, reported, responses,
                   countCalls, pageCalls, tokenCalls, paceSleeps, invoked,
                   windows, attempts>>

\* _get_problems_count: the post returns; total_num or 0
PostCount ==
    /\ pc = "count"
    /\ step = "post"
    /\ posts' = posts + 1
    /\ \E t \in CountResponses :
          /\ reported' = t
          /\ Return(OrZero(t))
    /\ sites' = Append(sites, "post")
    /\ UNCHANGED <<config, request, driver, output, calls, responses, countCalls,
                   pageCalls, tokenCalls, paceSleeps, faults, invoked, windows,
                   attempts>>

\* _get_problems_data_page: the post returns the questions of the window
PostPage ==
    /\ pc = "page"
    /\ step = "post"
    /\ posts' = posts + 1
    /\ \E p \in PageResponses(request.limit) :
          /\ responses' = Append(responses, p)
          /\ Return(p)
    /\ sites' = Append(sites, "post")
    /\ windows' = Append(windows, request)
    /\ UNCHANGED <<config, request, driver, output, calls, reported, countCalls,
                   pageCalls, tokenCalls, paceSleeps, faults, invoked, attempts>>

\* _get_problems_data returns problems to main(): no wrapper invocation is
\* left, and what was observed of the last one is dropped with it
ReturnProblems(ps) ==
    /\ problems_data' = ps
    /\ pc' = "open"
    /\ step' = "idle"
    /\ attempt' = 0
    /\ calls' = 0
    /\ sleeps' = 0
    /\ outcomes' = <<>>
    /\ sites' = <<>>
    /\ ret' = None
    /\ request' = NoRequest
    /\ UNCHANGED <<pageCalls, invoked>>

CallPageRecount(p) ==
    /\ page' = p
    /\ pc' = "count"
    /\ pageCalls' = pageCalls + 1
    /\ invoked' = Append(invoked, p)
    /\ Enter
    /\ UNCHANGED problems_data

\* _get_problems_data calls _get_problems_data_page(start, page_size, p)
CallPage(p) ==
    /\ page' = p
    /\ pc' = "page"
    /\ pageCalls' = pageCalls + 1
    /\ invoked' = Append(invoked, p)
    /\ Enter
    /\ UNCHANGED problems_data

\* _get_problems_data after _get_problems_count() returned
AfterCount ==
    /\ pc = "count"
    /\ step = "ret"
    /\ problem_count' = ret[1]
    /\ pages' = PageRange(ret[1], page_size)
    /\ problems' = <<>>
    /\ IF pages' > 0
          THEN CallPage(0)
          ELSE ReturnProblems(problems') /\ UNCHANGED page
    /\ UNCHANGED <<config, exc, output, reported, responses, countCalls, network,
                   windows, attempts>>

\* problems.extend(data), and the loop goes on or ends
AfterPage ==
    /\ pc = "page"
    /\ step = "ret"
    /\ problems' = Extend(problems, ret[1])
    /\ IF page + 1 < pages
          THEN CallPage(page + 1)
          ELSE ReturnProblems(problems') /\ UNCHANGED page
    /\ UNCHANGED <<config, exc, problem_count, pages, output, reported,
                   responses, countCalls, network, windows, attempts>>

OpenPointFirst == "main"

\* Where main() opens the output: after problems_data has been assigned
OpenPoint == "open"

\* with open(args.output, "w") as csv_file: ... writerow(csv_header)
OpenOutput ==
    /\ pc = OpenPoint
    /\ opened' = TRUE
    /\ rows' = <<csv_header>>
    /\ pc' = IF problems_data = <<>> THEN "done" ELSE "rows"
    /\ UNCHANGED <<config, step, wrapper, ret, request, exc, driver, reported, responses,
                   countCalls, pageCalls, network, sites, invoked, windows,
                   attempts>>

CurrentItemReversed == problems_data[Len(problems_data) - Len(rows) + 1]

\* for problem_data in problems_data: the item of the iteration in progress
CurrentItem == problems_data[Len(rows)]

\* csv_writer.writerow([...]) for the next item
WriteRow ==
    /\ pc = "rows"
    /\ LET item == CurrentItem
       IN  IF LoadsRaises(item)
              THEN /\ pc' = "failed"
                   /\ exc' = "TypeError"
                   /\ UNCHANGED rows
              ELSE /\ \E ord \in CompanyOrders(item) :
                         rows' = Append(rows, Row(item, ord))
                   /\ pc' = IF Len(rows') = Len(problems_data) + 1
                               THEN "done" ELSE "rows"
                   /\ UNCHANGED exc
    /\ UNCHANGED <<config, step, wrapper, ret, request, driver, opened, reported,
                   responses, countCalls, pageCalls, network, sites, invoked,
                   windows, attempts>>

Next ==
    \/ CallCount
    \/ GetClient
    \/ PaceSleep
    \/ PostRaises
    \/ PostCount
    \/ PostPage
    \/ AfterCount
    \/ AfterPage
    \/ OpenOutput
    \/ WriteRow

Spec == Init /\ [][Next]_vars

SpecRetry == InitRetry /\ [][Next]_vars

\* The program is one sequential process: a step that can be taken is taken
\* (every sleep ends, every round-trip returns or raises)
FairSpec == Spec /\ WF_vars(Next)

(***************************************************************************)
(* Vocabulary of the properties.                                           *)
(***************************************************************************)
\* A wrapper invocation is in progress or has just returned or raised
InFetch == pc \in {"count", "page"} \/ (pc = "failed" /\ exc # "TypeError")

\* The wrapped function raised a transient error on its first k calls and
\* succeeded on call k + 1
TransientThenOk(k) ==
    /\ Len(outcomes) = k + 1
    /\ outcomes[k + 1] = "ok"
    /\ \A i \in 1..k : outcomes[i] \in Exceptions

\* Every call of the wrapped function so far raised a transient error
AllTransient == \A i \in DOMAIN outcomes : outcomes[i] \in Exceptions

\* _get_problems_data has returned to main(): no fetch of the run failed
DriverReturned ==
    \/ pc \in {"open", "rows", "done"}
    \/ pc = "failed" /\ exc = "TypeError"

\* A fetch of the run ended in an error nothing recovered
FetchFailed == exc \in TransportErrors \cup {"KeyError"}

\* The fetch that failed is a page fetch
PageFetchFailed == FetchFailed /\ pageCalls > 0

RECURSIVE Concat(_)
\* The concatenation of a sequence of pages
Concat(ps) == IF ps = <<>> THEN <<>> ELSE Head(ps) \o Concat(Tail(ps))

RECURSIVE SumLen(_)
\* The sum of the lengths of a sequence of pages
SumLen(ps) == IF ps = <<>> THEN 0 ELSE Len(Head(ps)) + SumLen(Tail(ps))

(***************************************************************************)
(* C1.  For every ceiling T >= 1 and every k < T: when the wrapped         *)
(* function raises a transient error on its first k calls and then         *)
(* succeeds, the wrapper returns that success value, the function has been *)
(* called exactly k + 1 times and exactly k delay-sleeps have happened;    *)
(* the wrapper does not give up before the function had its T calls.       *)
(***************************************************************************)
C1_RetryReturnsSuccess ==
    /\ \A k \in 0..(times - 1) :
          (pc \in {"count", "page"} /\ TransientThenOk(k)) =>
              /\ step = "ret"
              /\ ret = IF pc = "count" THEN <<OrZero(reported)>>
                                       ELSE <<responses[Len(responses)]>>
              /\ calls = k + 1
              /\ sleeps = k
    /\ (pc = "failed" /\ exc \in Exceptions /\ AllTransient) =>
          Len(outcomes) >= times

C1_Witness ==
    /\ times = Times
    /\ pc = "page"
    /\ step = "ret"
    /\ TransientThenOk(times - 1)
    /\ ret # None
    /\ ret[1] # <<>>

(***************************************************************************)
(* C2.  For every ceiling T >= 1: when the wrapped function raises a       *)
(* transient error on every call, the wrapper calls it exactly T times and *)
(* the error of the T-th call leaves the wrapper uncaught, with no further *)
(* call.                                                                   *)
(***************************************************************************)
C2_RetryExhausts ==
    InFetch =>
        /\ AllTransient => Len(outcomes) <= times /\ calls <= times
        /\ (AllTransient /\ Len(outcomes) = times) =>
              /\ pc = "failed"
              /\ exc = outcomes[times]
              /\ calls = times
              /\ ~ENABLED Next
        /\ (pc = "failed" /\ exc \in Exceptions) =>
              /\ AllTransient
              /\ Len(outcomes) = times

C2_Witness ==
    /\ times = Times
    /\ pc = "failed"
    /\ exc = "ProtocolError"
    /\ calls = times
    /\ Len(outcomes) = times
    /\ AllTransient

(***************************************************************************)
(* C3.  An error outside the transient set is never retried: at whichever  *)
(* attempt it first occurs it leaves the wrapper at once, with no later    *)
(* call of the wrapped function and no delay-sleep after it; raised by the *)
(* first call, the function is called exactly once and no sleep happens.   *)
(***************************************************************************)
C3_NonTransientNotRetried ==
    InFetch =>
        \A i \in DOMAIN outcomes :
            outcomes[i] \notin Exceptions \cup {"ok"} =>
                /\ i = Len(outcomes)
                /\ pc = "failed"
                /\ exc = outcomes[i]
                /\ calls = i
                /\ sleeps = i - 1
                /\ \A j \in 1..(i - 1) : outcomes[j] \in Exceptions
                /\ ~ENABLED Next

C3_Witness ==
    /\ pc = "failed"
    /\ exc = "OtherError"
    /\ outcomes = <<"OtherError">>
    /\ calls = 1
    /\ sleeps = 0
    /\ posts = 1

(***************************************************************************)
(* C4.  For every total >= 0 returned by the count fetcher and every       *)
(* page_size > 0, a driver run in which no fetch fails makes exactly       *)
(* ceil((total + 1) / page_size) page fetcher invocations: the least n     *)
(* with n * page_size >= total + 1.                                        *)
(***************************************************************************)
C4_PageInvocations ==
    DriverReturned =>
        /\ problem_count = OrZero(reported)
        /\ pageCalls * page_size >= problem_count + 1
        /\ (pageCalls - 1) * page_size < problem_count + 1
        /\ Len(responses) = pageCalls

C4_Witness ==
    /\ DriverReturned
    /\ problem_count = 2
    /\ page_size = 2
    /\ pageCalls = 2

C6_Concatenation ==
    /\ DriverReturned =>
          /\ problems_data = Concat(responses)
          /\ Len(problems_data) = SumLen(responses)
    /\ (pc = "page" /\ step # "ret") => problems = Concat(responses)

C6_Witness ==
    /\ DriverReturned
    /\ responses = << <<Item2, Item1>>, <<Item1>> >>
    /\ problems_data = <<Item2, Item1, Item1>>

(***************************************************************************)
(* C7.  When the credential variable is absent the run fails before any    *)
(* network call (no token derivation, no query post), and the failure is   *)
(* not retried: the count fetcher's body runs once, no delay-sleep         *)
(* happens, and no page fetch or output write follows.                     *)
(***************************************************************************)
C7_MissingCredential ==
    ~cred =>
        /\ tokenCalls = 0
        /\ posts = 0
        /\ sleeps = 0
        /\ paceSleeps = 0
        /\ pageCalls = 0
        /\ countCalls <= 1
        /\ calls <= 1
        /\ ~opened
        /\ rows = <<>>
        /\ calls = 1 =>
              /\ pc = "failed"
              /\ exc = "KeyError"
              /\ ~ENABLED Next

C7_Witness ==
    /\ ~cred
    /\ pc = "failed"
    /\ exc = "KeyError"
    /\ calls = 1
    /\ countCalls = 1

(***************************************************************************)
(* C8.  If the page fetcher invocation for page i exhausts its retry       *)
(* budget or raises a non-transient error, the driver aborts with that     *)
(* error: no page fetcher invocation for a page j > i is made afterwards   *)
(* and the items accumulated from pages 0..i-1 are not returned to main(). *)
(***************************************************************************)
C8_PageFailureAborts ==
    PageFetchFailed =>
        /\ pc = "failed"
        /\ exc \in Exceptions => Len(outcomes) = times
        /\ exc = outcomes[Len(outcomes)]
        /\ pageCalls = page + 1
        /\ Len(responses) = page
        /\ problems_data = <<>>
        /\ ~ENABLED Next

C8_Witness ==
    /\ PageFetchFailed
    /\ pc = "failed"
    /\ page = 1
    /\ problems = <<Item1>>
    /\ problems_data = <<>>

(***************************************************************************)
(* C9.  The output file is opened and written only after the last page     *)
(* fetch of the run has completed successfully: in every run in which the  *)
(* count fetch or a page fetch ends in an unrecovered error, the output    *)
(* file is never opened, truncated or written, whatever number of pages    *)
(* had already succeeded.                                                  *)
(***************************************************************************)
C9_OutputAfterFetching ==
    /\ (opened \/ rows # <<>>) =>
          /\ ~FetchFailed
          /\ countCalls = 1
          /\ pages >= 1
          /\ pageCalls = pages
          /\ Len(responses) = pages
          /\ step = "idle"
    /\ (FetchFailed \/ pc \in {"main", "count", "page"}) =>
          ~opened /\ rows = <<>>

C9_Witness ==
    /\ FetchFailed
    /\ Len(responses) = 2
    /\ responses[1] # <<>>
    /\ ~opened
    /\ rows = <<>>

(***************************************************************************)
(* C10.  On a successful run the output file is exactly one header row     *)
(* followed by exactly one row per aggregated item, in page-arrival order: *)
(* row r + 1 carries the fields of the r-th item.  E.g. total = 2,         *)
(* page_size = 300 and two returned items give exactly 3 lines.            *)
(***************************************************************************)
C10_HeaderAndRows ==
    pc = "done" =>
        /\ opened
        /\ exc = "none"
        /\ Len(rows) = Len(problems_data) + 1
        /\ rows[1] = csv_header
        /\ \A r \in 1..Len(problems_data) :
              /\ Len(rows[r + 1]) = Len(csv_header)
              /\ rows[r + 1][1] = problems_data[r].question_frontend_id
              /\ rows[r + 1][2] = problems_data[r].title
              /\ rows[r + 1][3] = problems_data[r].title_slug
              /\ rows[r + 1][4] = problems_data[r].category_title
              /\ rows[r + 1][5] = problems_data[r].frequency
              /\ rows[r + 1][6] = problems_data[r].is_paid_only

C10_Witness ==
    /\ pc = "done"
    /\ page_size = DefaultBatchSize
    /\ problem_count = 2
    /\ problems_data = <<Item1, Item2>>
    /\ Len(rows) = 3

(***************************************************************************)
(* Vocabulary of the properties of the flattening and of the windows.      *)
(***************************************************************************)
\* Slugs a company-stats mapping may or may not hold
SlugUniverse == {"x", "y", "z"}

\* The slugs of the tag objects found under some company of the item
SlugsUnder(item) ==
    {s \in SlugUniverse :
        \E c \in DOMAIN item.company_tag_stats :
            \E i \in DOMAIN item.company_tag_stats[c] :
                item.company_tag_stats[c][i].slug = s}

\* How many times s occurs in the sequence o
Occurrences(o, s) == Cardinality({i \in DOMAIN o : o[i] = s})

\* field is the comma-join of the slugs of S, each exactly once, in some order
JoinsExactly(field, S) ==
    \E o \in SeqUpTo(SlugUniverse, Cardinality(SlugUniverse)) :
        /\ field = JoinComma(o)
        /\ \A s \in SlugUniverse :
              Occurrences(o, s) = IF s \in S THEN 1 ELSE 0

\* The items of cat inside the window of limit items starting at skip
Slice(cat, skip, limit) ==
    SubSeq(cat, Min(skip, Len(cat)) + 1, Min(skip + limit, Len(cat)))

\* The service answered every page query with exactly the window of cat
Faithful(cat) ==
    /\ Len(windows) = Len(responses)
    /\ \A i \in DOMAIN windows :
          responses[i] = Slice(cat, windows[i].skip, windows[i].limit)

\* The answered windows that hold catalog index k (counted from 0)
WindowsHolding(k) ==
    {i \in DOMAIN windows :
        windows[i].skip <= k /\ k < windows[i].skip + windows[i].limit}

\* The answered windows lying entirely at or beyond index n
WindowsBeyond(n) == {i \in DOMAIN windows : windows[i].skip >= n}

\* 1 in the middle of a fetcher attempt that has its client, else 0
AttemptInProgress ==
    IF pc \in {"count", "page"} /\ step \in {"pace", "post"} THEN 1 ELSE 0

(***************************************************************************)
(* C11.  For every item, the exported companies field is the comma-joined  *)
(* deduplicated set of the slugs of all tag objects found under any        *)
(* company of the item's company-stats mapping: each distinct slug occurs  *)
(* exactly once, and no slug absent from the mapping occurs.               *)
(***************************************************************************)
C11_CompaniesField ==
    \A r \in 1..(Len(rows) - 1) :
        /\ JoinsExactly(rows[r + 1][8], SlugsUnder(problems_data[r]))
        /\ problems_data[r] = Item1 => rows[r + 1][8] \in {"x,y", "y,x"}
        /\ problems_data[r] = Item2 => rows[r + 1][8] = ""

C11_Witness ==
    /\ pc = "done"
    /\ problems_data = <<Item1, Item2>>
    /\ rows[2][8] = "y,x"
    /\ rows[3][8] = ""

(***************************************************************************)
(* C12.  Within one driver run (base offset 0) the page fetcher is invoked *)
(* for the page indices 0, 1, ..., N-1 in strictly increasing order, each  *)
(* exactly once, and the i-th invocation requests skip = i * page_size,    *)
(* limit = page_size: window i+1 starts where window i ends.               *)
(***************************************************************************)
C12_Windows ==
    /\ invoked = [i \in 1..pageCalls |-> i - 1]
    /\ pageCalls <= pages
    /\ DriverReturned => pageCalls = pages
    /\ pc = "page" => page = pageCalls - 1
    /\ (pc = "page" /\ step \in {"pace", "post"}) =>
          request = [limit |-> page_size, skip |-> page * page_size]
    /\ \A i \in DOMAIN windows :
          /\ windows[i].limit = page_size
          /\ windows[i].skip = (i - 1) * page_size
    /\ \A i \in 1..(Len(windows) - 1) :
          windows[i + 1].skip = windows[i].skip + windows[i].limit

C12_Witness ==
    /\ DriverReturned
    /\ page_size = 2
    /\ invoked = <<0, 1>>
    /\ windows = <<[limit |-> 2, skip |-> 0], [limit |-> 2, skip |-> 2]>>

(***************************************************************************)
(* C13.  Every invocation of the count fetcher and of the page fetcher has *)
(* its own fresh budget of 3 attempts: the transient failures of the count *)
(* fetch or of earlier page fetches never reduce the attempts of a later   *)
(* fetch, so a run succeeds even when every fetch fails twice first.       *)
(***************************************************************************)
C13_FreshBudget ==
    /\ (pc \in {"count", "page"} /\ step # "ret") =>
          /\ attempt = Len(outcomes)
          /\ sleeps = Len(outcomes)
          /\ AllTransient
          /\ attempt <= Times - 1
    /\ (InFetch /\ pc = "failed" /\ exc \in Exceptions) =>
          /\ AllTransient
          /\ Len(outcomes) = Times

C13_Witness ==
    /\ pc = "done"
    /\ pageCalls >= 1
    /\ countAttempts = Times * countCalls
    /\ pageAttempts = Times * pageCalls
    /\ faults = (Times - 1) * (countCalls + pageCalls)

(***************************************************************************)
(* C14.  In every run the count fetcher is invoked exactly once, all of    *)
(* its attempts complete before the first page fetcher attempt, and the    *)
(* page count is fixed from that single value: the total is never fetched  *)
(* again and the number of pages never changes during the run.             *)
(***************************************************************************)
C14_CountOnce ==
    /\ [](/\ countCalls <= 1
          /\ countCalls = 1 <=> pc # "main"
          /\ (pageCalls > 0 \/ pageAttempts > 0) =>
                /\ countCalls = 1
                /\ countAttempts >= 1
                /\ pages = PageRange(OrZero(reported), page_size)
                /\ problem_count = OrZero(reported))
    /\ [][(pageCalls > 0 \/ pc \notin {"main", "count"}) =>
              /\ countCalls' = countCalls
              /\ countAttempts' = countAttempts
              /\ reported' = reported
              /\ problem_count' = problem_count
              /\ pages' = pages]_vars

C14_Witness ==
    /\ pc = "page"
    /\ page = 1
    /\ countCalls = 1
    /\ countAttempts = Times
    /\ pageAttempts >= 2

(***************************************************************************)
(* C15.  In every attempt of the count fetcher and of the page fetcher,    *)
(* first tries and retries alike, the pacing delay elapses before the      *)
(* query is issued: no query post is sent without a pacing sleep earlier   *)
(* in the same attempt.                                                    *)
(***************************************************************************)
C15_PacedPosts ==
    /\ posts <= paceSleeps
    /\ paceSleeps =
          posts + (IF pc \in {"count", "page"} /\ step = "post" THEN 1 ELSE 0)

C15_Witness ==
    /\ pc = "page"
    /\ step = "post"
    /\ attempt = 1
    /\ posts = 2
    /\ paceSleeps = 3

C17_Coverage ==
    DriverReturned =>
        /\ \A k \in 0..(problem_count - 1) : Cardinality(WindowsHolding(k)) = 1
        /\ Cardinality(WindowsBeyond(problem_count)) =
              IF problem_count % page_size = 0 THEN 1 ELSE 0
        /\ \A cat \in [1..problem_count -> Items] :
              Faithful(cat) =>
                  /\ problems_data = cat
                  /\ \A i \in WindowsBeyond(problem_count) : responses[i] = <<>>

C17_Witness ==
    /\ DriverReturned
    /\ problem_count = 2
    /\ page_size = 2
    /\ Faithful(<<Item1, Item2>>)
    /\ responses = << <<Item1, Item2>>, <<>> >>
    /\ problems_data = <<Item1, Item2>>

(***************************************************************************)
(* C18.  Provided every network call returns or raises, every run ends,    *)
(* with the aggregated sequence or with an error, after at most 3 count    *)
(* fetcher attempts and at most 3 * ceil((total + 1) / page_size) page     *)
(* fetcher attempts; the wrapper never loops beyond its ceiling and no     *)
(* page index is fetched again after it succeeded.                         *)
(***************************************************************************)
C18_Terminates ==
    /\ <>(pc \in {"done", "failed"})
    /\ [](/\ countAttempts <= Times
          /\ calls <= Times
          /\ pageAttempts <= Times * pageCalls
          /\ pageCalls > 0 =>
                /\ (pageCalls - 1) * page_size < problem_count + 1
                /\ pageAttempts * page_size
                      < Times * (problem_count + 1 + page_size)
          /\ \A i, j \in DOMAIN invoked : i < j => invoked[i] < invoked[j]
          /\ Len(responses) <= Len(invoked)
          /\ Len(invoked) <= Len(responses) + 1)

C18_Witness ==
    /\ pc = "failed"
    /\ exc = "ProtocolError"
    /\ countAttempts = 1
    /\ pageCalls = 1
    /\ pageAttempts = Times

(***************************************************************************)
(* C19.  The retry wrapper encloses the whole fetch attempt, client        *)
(* construction included: a transient error raised by the token-derivation *)
(* round-trip is caught, consumes one attempt and is followed by the retry *)
(* delay and a fresh attempt, exactly like one raised by the query post; a *)
(* failed attempt never leaves a query post issued after its error.        *)
(***************************************************************************)
C19_RetryScope ==
    InFetch =>
        /\ Len(sites) = Len(outcomes)
        /\ \A i \in DOMAIN outcomes :
              (outcomes[i] \in Exceptions /\ sites[i] \in {"csrf", "post"}
                  /\ i < times) =>
                  /\ ~(pc = "failed" /\ Len(outcomes) = i)
                  /\ sleeps >= i
                  /\ attempt >= i
                  /\ Len(outcomes) = i =>
                        /\ attempt = i
                        /\ sleeps = i
                        /\ \/ step = "client" /\ calls = i
                           \/ step \in {"pace", "post"} /\ calls = i + 1
        /\ AttemptInProgress = 1 => calls = Len(outcomes) + 1
        /\ AttemptInProgress = 0 => calls = Len(outcomes)
        /\ posts = tokenCalls - tokenFails - AttemptInProgress

C19_Witness ==
    /\ pc = "page"
    /\ step = "post"
    /\ outcomes = <<"ProtocolError", "ProtocolError">>
    /\ sites = <<"csrf", "post">>
    /\ attempt = 2
    /\ sleeps = 2
    /\ calls = 3

====
